---------------------------- MODULE Spec2Model ----------------------------
(***************************************************************************)
(* The embedding-indexed memory store of recall (src/recall/store.py) and  *)
(* its similarity engine (src/recall/embedder.py), as a state machine over *)
(* one open sqlite3 connection.                                            *)
(***************************************************************************)
EXTENDS Integers, Sequences, FiniteSets, TLC

(***************************************************************************)
(* Bounds of the model.                                                    *)
(***************************************************************************)
\* ids the table hands out before the model stops inserting; also the
\* longest batch and the largest limit
MaxId == 2

(***************************************************************************)
(* numpy float32 arithmetic.  A float is [nan, m, e]: the value m * 2^e    *)
(* with 2^23 <= |m| < 2^24 (or m = 0), or NaN.  Every operation returns    *)
(* the exact result rounded to nearest, ties to even, as IEEE-754 binary32 *)
(* does; exponent range is not modelled (no overflow or underflow occurs   *)
(* on the vectors used).                                                   *)
(***************************************************************************)
\* significand bits of numpy.float32
MantBits == 24

RECURSIVE Pow2(_)
Pow2(n) == IF n <= 0 THEN 1 ELSE 2 * Pow2(n - 1)

RECURSIVE BitLen(_)
BitLen(n) == IF n <= 0 THEN 0 ELSE 1 + BitLen(n \div 2)

Abs(x) == IF x < 0 THEN -x ELSE x

Sgn(x) == IF x < 0 THEN -1 ELSE IF x > 0 THEN 1 ELSE 0

NaN == [nan |-> TRUE, m |-> 0, e |-> 0]

FZero == [nan |-> FALSE, m |-> 0, e |-> 0]

MkFloat(m, e) == IF m = 0 THEN FZero ELSE [nan |-> FALSE, m |-> m, e |-> e]

\* q (a MantBits-bit quotient) followed by the fraction rem/(2*half), sign s:
\* round to nearest, ties to even, renormalising when the significand carries
RNE(s, q, rem, half, e) ==
    LET up == (rem > half) \/ (rem = half /\ q % 2 = 1)
        q1 == IF up THEN q + 1 ELSE q
    IN  IF q1 = Pow2(MantBits)
        THEN MkFloat(s * Pow2(MantBits - 1), e + 1)
        ELSE MkFloat(s * q1, e)

\* the integer r (0 < r < 2^30) times 2^e, sign s, rounded to a float
RoundInt(s, r, e) ==
    LET n == BitLen(r)
    IN  IF n <= MantBits
        THEN MkFloat(s * r * Pow2(MantBits - n), e - (MantBits - n))
        ELSE LET k == n - MantBits
             IN  RNE(s, r \div Pow2(k), r % Pow2(k), Pow2(k - 1), e + k)

\* a float32 holding a small integer exactly
FromInt(x) == IF x = 0 THEN FZero ELSE RoundInt(Sgn(x), Abs(x), 0)

\* x * y: the 48-bit product of the significands, held as hi * 2^24 + lo
FMul(x, y) ==
    IF x.nan \/ y.nan THEN NaN
    ELSE IF x.m = 0 \/ y.m = 0 THEN FZero
    ELSE LET B    == Pow2(MantBits \div 2)
             W    == Pow2(MantBits)
             a    == Abs(x.m)
             b    == Abs(y.m)
             a1   == a \div B
             a0   == a % B
             b1   == b \div B
             b0   == b % B
             mid  == a1 * b0 + a0 * b1
             lowf == (mid % B) * B + a0 * b0
             lo   == lowf % W
             hi   == a1 * b1 + (mid \div B) + (lowf \div W)
             s    == Sgn(x.m) * Sgn(y.m)
         IN  IF hi >= Pow2(MantBits - 1)
             THEN RNE(s, hi, lo, Pow2(MantBits - 1), x.e + y.e + MantBits)
             ELSE RNE(s, 2 * hi + (lo \div Pow2(MantBits - 1)),
                      lo % Pow2(MantBits - 1), Pow2(MantBits - 2),
                      x.e + y.e + MantBits - 1)

\* n more quotient bits of r / b by long division
RECURSIVE DivSteps(_, _, _, _)
DivSteps(q, r, b, n) ==
    IF n = 0 THEN <<q, r>>
    ELSE IF 2 * r >= b THEN DivSteps(2 * q + 1, 2 * r - b, b, n - 1)
                       ELSE DivSteps(2 * q, 2 * r, b, n - 1)

\* x / y; a zero divisor only ever divides the components of its own
\* all-zero vector, and 0/0 is NaN in numpy (a RuntimeWarning, no exception)
FDiv(x, y) ==
    IF x.nan \/ y.nan \/ y.m = 0 THEN NaN
    ELSE IF x.m = 0 THEN FZero
    ELSE LET a  == Abs(x.m)
             b  == Abs(y.m)
             s  == Sgn(x.m) * Sgn(y.m)
             n  == IF a >= b THEN MantBits - 1 ELSE MantBits
             qr == DivSteps(a \div b, a % b, b, n)
         IN  RNE(s, qr[1], 2 * qr[2], b, x.e - y.e - n)

\* x + y with three guard bits; bits shifted out of the smaller operand are
\* kept as a sticky bit
FAdd(x, y) ==
    IF x.nan \/ y.nan THEN NaN
    ELSE IF x.m = 0 THEN y
    ELSE IF y.m = 0 THEN x
    ELSE LET big == IF x.e >= y.e THEN x ELSE y
             sml == IF x.e >= y.e THEN y ELSE x
             d   == big.e - sml.e
             t   == Abs(sml.m) * 8
             b0  == IF d > MantBits + 3 THEN 0 ELSE t \div Pow2(d)
             st  == IF d > MantBits + 3 THEN TRUE ELSE t % Pow2(d) /= 0
             b   == IF st /\ b0 % 2 = 0 THEN b0 + 1 ELSE b0
             r   == big.m * 8 + Sgn(sml.m) * b
         IN  IF r = 0 THEN FZero ELSE RoundInt(Sgn(r), Abs(r), big.e - 3)

\* digit-by-digit square root: pair i (of n) of the radicand m4, two bits at
\* a time from the top, then zero pairs
RECURSIVE SqrtSteps(_, _, _, _, _, _)
SqrtSteps(root, rem, m4, pairs, i, n) ==
    IF i > n THEN <<root, rem>>
    ELSE LET two  == IF i <= pairs THEN (m4 \div Pow2(2 * (pairs - i))) % 4 ELSE 0
             r    == 4 * rem + two
             try  == 4 * root + 1
         IN  IF r >= try
             THEN SqrtSteps(2 * root + 1, r - try, m4, pairs, i + 1, n)
             ELSE SqrtSteps(2 * root, r, m4, pairs, i + 1, n)

\* sqrt(x) for x >= 0
FSqrt(x) ==
    IF x.nan \/ x.m < 0 THEN NaN
    ELSE IF x.m = 0 THEN FZero
    ELSE LET odd   == x.e % 2 = 1
             m4    == IF odd THEN 2 * x.m ELSE x.m
             pairs == IF odd THEN (MantBits \div 2) + 1 ELSE MantBits \div 2
             sh    == IF odd THEN MantBits - 1 ELSE MantBits
             rr    == SqrtSteps(0, 0, m4, pairs, 1, MantBits)
             up    == rr[2] > rr[1]
         IN  RNE(1, rr[1], IF up THEN 2 ELSE 0, 1, (x.e - sh) \div 2)

\* x < y, x = y on floats; every comparison with NaN is false
FLt(x, y) ==
    /\ ~x.nan /\ ~y.nan
    /\ IF Sgn(x.m) /= Sgn(y.m) THEN Sgn(x.m) < Sgn(y.m)
       ELSE IF x.m = 0 THEN FALSE
       ELSE IF x.m > 0
            THEN x.e < y.e \/ (x.e = y.e /\ x.m < y.m)
            ELSE x.e > y.e \/ (x.e = y.e /\ x.m < y.m)

FEq(x, y) == ~x.nan /\ ~y.nan /\ x.m = y.m /\ x.e = y.e

FGe(x, y) == FLt(y, x) \/ FEq(x, y)

(***************************************************************************)
(* embedder.py: the similarity engine.                                     *)
(***************************************************************************)
RECURSIVE SumSquares(_, _, _)
SumSquares(v, i, acc) ==
    IF i > Len(v) THEN acc
    ELSE SumSquares(v, i + 1, FAdd(acc, FMul(v[i], v[i])))

\* np.linalg.norm of one float32 vector
Norm(v) == FSqrt(SumSquares(v, 1, FZero))

\* v / np.linalg.norm(v), element by element
Normalize(v) == LET n == Norm(v) IN [i \in 1..Len(v) |-> FDiv(v[i], n)]

RECURSIVE DotFrom(_, _, _, _)
DotFrom(a, b, i, acc) ==
    IF i > Len(a) THEN acc
    ELSE DotFrom(a, b, i + 1, FAdd(acc, FMul(a[i], b[i])))

\* np.dot of two float32 vectors
Dot(a, b) == DotFrom(a, b, 1, FZero)

\* cosine_similarities(query, vectors): one score per row of vectors
cosine_similarities(query, vectors) ==
    LET query_norm   == Normalize(query)
        vectors_norm == [i \in 1..Len(vectors) |-> Normalize(vectors[i])]
    IN  [i \in 1..Len(vectors) |-> Dot(vectors_norm[i], query_norm)]

(***************************************************************************)
(* Values the model draws its inputs from.                                 *)
(***************************************************************************)
\* Python None where a str is expected (a JSON null content in an import)
NullContent == "<None>"

\* texts handed to the store and to search; "" is the empty text
Contents == {"", "a", "b", "n"}

\* embed_text: the sentence-transformers model is outside the repository and
\* deterministic; these are the float32 vectors it is taken to return, the
\* zero vector among them
Embed(c) ==
    CASE c = "a" -> <<1, 4>>
      [] c = "b" -> <<3, 4>>
      [] c = "n" -> <<-1, -4>>
      [] OTHER   -> <<0, 0>>

\* an Optional[List[str]] argument: None, a list, or (kind "bad") a value
\* json.dumps rejects with TypeError, such as a list holding a set
None == [kind |-> "none", v |-> <<>>]

Some(t) == [kind |-> "some", v |-> t]

Unserializable == [kind |-> "bad", v |-> <<>>]

\* Python truthiness of an Optional[List[str]]
Truthy(t) == t.kind = "bad" \/ (t.kind = "some" /\ t.v /= <<>>)

\* tags or []
TagsOrEmpty(t) == IF Truthy(t) THEN t ELSE Some(<<>>)

Range(f) == {f[i] : i \in DOMAIN f}

Min(a, b) == IF a <= b THEN a ELSE b

(***************************************************************************)
(* Conversions between Python values and the stored columns.               *)
(***************************************************************************)
RECURSIVE JoinTags(_, _)
JoinTags(t, i) ==
    IF i > Len(t) THEN <<>>
    ELSE (IF i = 1 THEN <<>> ELSE <<",">>) \o <<t[i]>> \o JoinTags(t, i + 1)

\* json.dumps of a list of str: the text, token by token
json_dumps(t) == <<"[">> \o JoinTags(t, 1) \o <<"]">>

\* json.loads of such a text: the elements between the separators
json_loads(s) ==
    LET inner == SubSeq(s, 2, Len(s) - 1)
    IN  [i \in 1..((Len(inner) + 1) \div 2) |-> inner[2 * i - 1]]

RECURSIVE tobytes(_)
\* ndarray.tobytes(): per component a sign byte and a magnitude byte
tobytes(v) ==
    IF v = <<>> THEN <<>>
    ELSE <<IF Head(v) < 0 THEN 1 ELSE 0, Abs(Head(v))>> \o tobytes(Tail(v))

\* np.frombuffer(bytes, dtype=np.float32)
frombuffer(b) ==
    [i \in 1..(Len(b) \div 2) |->
        FromInt((IF b[2 * i - 1] = 1 THEN -1 ELSE 1) * b[2 * i])]

VARIABLES
    rows,       \* table memories as this connection sees it, in rowid order
    committed,  \* table memories as committed to the database file
    seq,        \* sqlite_sequence.seq of the table (AUTOINCREMENT)
    clock,      \* CURRENT_TIMESTAMP as the last INSERT read it, in seconds
    assigned,   \* history: every id an INSERT has assigned so far
    last        \* the last call: its operation, arguments and outcome

vars == <<rows, committed, seq, clock, assigned, last>>

(***************************************************************************)
(* The persistence layer: the schema of _init_db and the statements.       *)
(***************************************************************************)
RECURSIVE MaxOf(_)
MaxOf(S) ==
    IF S = {} THEN 0
    ELSE LET x == CHOOSE y \in S : TRUE
             m == MaxOf(S \ {x})
         IN  IF x > m THEN x ELSE m

Ids(table) == {table[i].id : i \in DOMAIN table}

\* INTEGER PRIMARY KEY without AUTOINCREMENT: one more than the largest rowid
\* now in the table
NextRowidNoAutoincrement(table, sq) == MaxOf(Ids(table)) + 1

\* INTEGER PRIMARY KEY AUTOINCREMENT: one more than the largest rowid the
\* table has ever held
NextRowid(table, sq) ==
    LET m == MaxOf(Ids(table)) IN (IF sq > m THEN sq ELSE m) + 1

\* the INSERT with the tags column left to its DEFAULT '[]'
InsertRowDefaultTags(table, sq, now, content, tags, embedding) ==
    Append(table, [id         |-> NextRowid(table, sq),
                   content    |-> content,
                   tags       |-> <<"[", "]">>,
                   embedding  |-> embedding,
                   created_at |-> now])

\* one INSERT INTO memories (content, tags, embedding) VALUES (?, ?, ?)
InsertRow(table, sq, now, content, tags, embedding) ==
    Append(table, [id         |-> NextRowid(table, sq),
                   content    |-> content,
                   tags       |-> tags,
                   embedding  |-> embedding,
                   created_at |-> now])

\* DELETE FROM memories WHERE id <= ?
DeleteRowUpTo(table, memory_id) == SelectSeq(table, LAMBDA r : r.id > memory_id)

\* DELETE FROM memories WHERE id = ?
DeleteRow(table, memory_id) == SelectSeq(table, LAMBDA r : r.id /= memory_id)

\* content TEXT NOT NULL
NotNullOk(content) == content /= NullContent

\* executemany running the parameter rows from the last to the first
RECURSIVE executemanyReversed(_, _, _, _, _)
executemanyReversed(table, sq, now, params, i) ==
    IF i > Len(params) THEN [table |-> table, seq |-> sq, ok |-> TRUE]
    ELSE LET p == params[Len(params) + 1 - i]
         IN  IF ~NotNullOk(p.content)
             THEN [table |-> table, seq |-> sq, ok |-> FALSE]
             ELSE LET t2 == InsertRow(table, sq, now, p.content, p.tags,
                                      p.embedding)
                  IN  executemanyReversed(t2, t2[Len(t2)].id, now, params, i + 1)

\* executemany of the INSERT: one statement per parameter row, in order,
\* inside the transaction the first INSERT opens; a statement the NOT NULL
\* constraint rejects raises IntegrityError and ends the call, the rows
\* before it staying written in the open transaction
RECURSIVE executemany(_, _, _, _, _)
executemany(table, sq, now, params, i) ==
    IF i > Len(params) THEN [table |-> table, seq |-> sq, ok |-> TRUE]
    ELSE IF ~NotNullOk(params[i].content)
         THEN [table |-> table, seq |-> sq, ok |-> FALSE]
         ELSE LET t2 == InsertRow(table, sq, now, params[i].content,
                                  params[i].tags, params[i].embedding)
              IN  executemany(t2, t2[Len(t2)].id, now, params, i + 1)

(***************************************************************************)
(* Inputs of the calls.                                                    *)
(***************************************************************************)
\* (content, tags) arguments of add
Items ==
    { [content |-> "a", tags |-> Some(<<"a", "b">>)],
      [content |-> "b", tags |-> Some(<<"z">>)],
      [content |-> "",  tags |-> None] }

\* items add_batch cannot store: a content the table rejects, tags
\* json.dumps rejects
BadItems ==
    { [content |-> NullContent, tags |-> None],
      [content |-> "a", tags |-> Unserializable] }

RECURSIVE SeqsUpTo(_, _)
SeqsUpTo(S, n) ==
    IF n = 0 THEN {<<>>}
    ELSE LET shorter == SeqsUpTo(S, n - 1)
         IN  shorter \cup {Append(q, x) : q \in shorter, x \in S}

\* a call of add: its arguments and whether the embedding provider answers
AddCalls ==
    {[content |-> it.content, tags |-> it.tags, embOk |-> TRUE] : it \in Items}
    \cup {[content |-> "a", tags |-> None, embOk |-> FALSE],
          [content |-> "a", tags |-> Unserializable, embOk |-> TRUE]}

\* items of add_batch calls
BatchItems ==
    { [content |-> "a", tags |-> Some(<<"a", "b">>)],
      [content |-> "",  tags |-> None] } \cup BadItems

BatchCalls ==
    {[items |-> b, embOk |-> TRUE] : b \in SeqsUpTo(BatchItems, MaxId)}
    \cup {[items |-> <<[content |-> "a", tags |-> None]>>, embOk |-> FALSE]}

\* records of an import file: {id, content, tags, created_at}; tags of kind
\* "none" is a record without the key
ImportRecords ==
    { [id |-> 1, content |-> "b", tags |-> Some(<<"z">>), created_at |-> 0],
      [id |-> 2, content |-> "a", tags |-> None, created_at |-> 1],
      [id |-> 3, content |-> NullContent, tags |-> Some(<<>>), created_at |-> 1] }

ImportCalls ==
    {[data |-> d, embOk |-> TRUE] : d \in SeqsUpTo(ImportRecords, MaxId)}
    \cup {[data |-> <<>>, embOk |-> FALSE]}

TagFilters == {None, Some(<<"b", "z">>), Some(<<"z">>)}

\* (query, tags, min_score) of search calls and whether the embedding
\* provider answers; min_score 0.0 is the default of MemoryStore.search
SearchCalls ==
    { [query |-> "a", tags |-> None, min_score |-> FZero, embOk |-> TRUE],
      [query |-> "a", tags |-> Some(<<"b", "z">>), min_score |-> FromInt(1),
       embOk |-> TRUE],
      [query |-> "a", tags |-> Some(<<"z">>), min_score |-> FZero, embOk |-> TRUE],
      [query |-> "n", tags |-> None, min_score |-> FromInt(-2), embOk |-> TRUE],
      [query |-> "",  tags |-> Some(<<>>), min_score |-> FZero, embOk |-> TRUE],
      [query |-> "a", tags |-> None, min_score |-> FZero, embOk |-> FALSE] }

Limits == 0..MaxId

(***************************************************************************)
(* The read operations of MemoryStore, as functions of the table.          *)
(***************************************************************************)
\* the float32 array embed_text returns
AsFloat32(v) == [i \in 1..Len(v) |-> FromInt(v[i])]

\* the scores of every query vector against every stored vector of the
\* model, each computed by cosine_similarities (evaluated once)
ScoreTable ==
    [q \in {Embed(c) : c \in Contents} |->
        [b \in {tobytes(Embed(c)) : c \in Contents} |->
            cosine_similarities(AsFloat32(q), <<frombuffer(b)>>)[1]]]

\* scores = cosine_similarities(query_embedding, np.vstack(embeddings))
Scores(query_embedding, embeddings) ==
    [i \in 1..Len(embeddings) |->
        ScoreTable[query_embedding][embeddings[i]]]

\* a filter that lets every memory through
TagMatchAll(tags, mem_tags) == TRUE

\* tags and not any(t in mem_tags for t in tags), negated
TagMatch(tags, mem_tags) ==
    ~Truthy(tags) \/ \E i \in DOMAIN tags.v : tags.v[i] \in Range(mem_tags)

\* Memory(id, content, tags, created_at) with its score (0.0 by default)
MemoryOf(row, score) ==
    [id         |-> row.id,
     content    |-> row.content,
     tags       |-> json_loads(row.tags),
     created_at |-> row.created_at,
     score      |-> score]

\* place m in a list sorted by descending score, after its equals
InsertByScore(sorted, m) ==
    LET before == {j \in 1..Len(sorted) : FLt(sorted[j].score, m.score)}
        k      == IF before = {} THEN Len(sorted) + 1
                  ELSE CHOOSE j \in before : \A j2 \in before : j <= j2
    IN  SubSeq(sorted, 1, k - 1) \o <<m>> \o SubSeq(sorted, k, Len(sorted))

\* the memories left in the order of the SELECT
Unsorted(memories, i, sorted) == memories

\* memories.sort(key=lambda m: m.score, reverse=True): a stable sort
RECURSIVE SortByScore(_, _, _)
SortByScore(memories, i, sorted) ==
    IF i > Len(memories) THEN sorted
    ELSE SortByScore(memories, i + 1, InsertByScore(sorted, memories[i]))

\* MemoryStore.search
search(query, limit, tags, min_score) ==
    LET query_embedding == Embed(query)
        matching == SelectSeq(rows, LAMBDA r : TagMatch(tags, json_loads(r.tags)))
        scores   == Scores(query_embedding,
                           [i \in 1..Len(matching) |-> matching[i].embedding])
        memories == [i \in 1..Len(matching) |-> MemoryOf(matching[i], scores[i])]
        kept     == SelectSeq(memories, LAMBDA m : FGe(m.score, min_score))
        sorted   == SortByScore(kept, 1, <<>>)
    IN  IF rows = <<>> \/ matching = <<>> THEN <<>>
        ELSE SubSeq(sorted, 1, Min(limit, Len(sorted)))

\* place r in a list sorted by created_at, latest first, after its equals
InsertByCreated(sorted, r) ==
    LET before == {j \in 1..Len(sorted) : sorted[j].created_at < r.created_at}
        k      == IF before = {} THEN Len(sorted) + 1
                  ELSE CHOOSE j \in before : \A j2 \in before : j <= j2
    IN  SubSeq(sorted, 1, k - 1) \o <<r>> \o SubSeq(sorted, k, Len(sorted))

\* SELECT ... ORDER BY created_at DESC: the scan of idx_memories_created,
\* whose entries of one created_at lie in rowid order
RECURSIVE OrderByCreatedDesc(_, _, _)
OrderByCreatedDesc(table, i, sorted) ==
    IF i > Len(table) THEN sorted
    ELSE OrderByCreatedDesc(table, i + 1, InsertByCreated(sorted, table[i]))

\* the loop of MemoryStore.list over the cursor
RECURSIVE ListScan(_, _, _, _, _)
ListScan(cursor, i, memories, limit, tags) ==
    IF i > Len(cursor) THEN memories
    ELSE IF ~TagMatch(tags, json_loads(cursor[i].tags))
         THEN ListScan(cursor, i + 1, memories, limit, tags)
         ELSE LET more == Append(memories, MemoryOf(cursor[i], FZero))
              IN  IF Len(more) >= limit THEN more
                  ELSE ListScan(cursor, i + 1, more, limit, tags)

\* MemoryStore.list
list(limit, tags) ==
    ListScan(OrderByCreatedDesc(rows, 1, <<>>), 1, <<>>, limit, tags)

\* MemoryStore.count
count == Len(rows)

Reverse(s) == [i \in 1..Len(s) |-> s[Len(s) + 1 - i]]

\* MemoryStore.export_json: ORDER BY created_at reads the same index from
\* its other end
export_json ==
    LET cursor == Reverse(OrderByCreatedDesc(rows, 1, <<>>))
    IN  [i \in 1..Len(cursor) |->
            [id         |-> cursor[i].id,
             content    |-> cursor[i].content,
             tags       |-> json_loads(cursor[i].tags),
             created_at |-> cursor[i].created_at]]

\* get(id) -> Memory or absent: the row of that id, or no row
Absent == [id |-> 0, content |-> NullContent, tags |-> <<>>,
           created_at |-> 0, score |-> FZero]

get(memory_id) ==
    IF memory_id \in Ids(rows)
    THEN MemoryOf(CHOOSE r \in Range(rows) : r.id = memory_id, FZero)
    ELSE Absent

Init ==
    /\ rows = <<>>
    /\ committed = <<>>
    /\ seq = 0
    /\ clock = 0
    /\ assigned = {}
    /\ last = [op |-> "open"]

(***************************************************************************)
(* The calls.  embOk is whether the embedding provider answers; now is     *)
(* CURRENT_TIMESTAMP as the call's INSERTs read it (one reading a call).   *)
(***************************************************************************)
\* the clock does not run backwards, and a second may have passed since the
\* last INSERT; the first INSERT fixes the origin
Nows == IF assigned = {} THEN {clock} ELSE {clock, clock + 1}

\* MemoryStore.add
add(content, tags, embOk, now) ==
    /\ seq < MaxId
    /\ \/ /\ ~embOk \/ TagsOrEmpty(tags).kind = "bad"
          /\ last' = [op |-> "add", ok |-> FALSE, content |-> content, tags |-> tags]
          /\ UNCHANGED <<rows, committed, seq, clock, assigned>>
       \/ /\ embOk /\ TagsOrEmpty(tags).kind /= "bad"
          /\ LET t     == TagsOrEmpty(tags).v
                 table == InsertRow(rows, seq, now, content, json_dumps(t),
                                    tobytes(Embed(content)))
                 id    == table[Len(table)].id
             IN  /\ rows' = table
                 /\ committed' = table
                 /\ seq' = id
                 /\ assigned' = assigned \cup {id}
                 /\ clock' = now
                 /\ last' = [op |-> "add", ok |-> TRUE, content |-> content,
                             tags |-> tags,
                             ret |-> [id |-> id, content |-> content, tags |-> t]]

\* the body of MemoryStore.add_batch, called as add_batch or by import_json
AddBatchCall(op, items, embOk, now) ==
    /\ seq + Len(items) <= MaxId
    /\ \/ /\ ~embOk \/ \E i \in DOMAIN items : TagsOrEmpty(items[i].tags).kind = "bad"
          /\ last' = [op |-> op, ok |-> FALSE, items |-> items, written |-> 0]
          /\ UNCHANGED <<rows, committed, seq, clock, assigned>>
       \/ /\ embOk /\ \A i \in DOMAIN items : TagsOrEmpty(items[i].tags).kind /= "bad"
          /\ LET params == [i \in 1..Len(items) |->
                              [content   |-> items[i].content,
                               tags      |-> json_dumps(TagsOrEmpty(items[i].tags).v),
                               embedding |-> tobytes(Embed(items[i].content))]]
                 done   == executemany(rows, seq, now, params, 1)
             IN  /\ rows' = done.table
                 /\ seq' = done.seq
                 /\ assigned' = assigned \cup Ids(done.table)
                 /\ committed' = IF done.ok THEN done.table ELSE committed
                 /\ last' = IF done.ok
                            THEN [op |-> op, ok |-> TRUE, items |-> items,
                                  ret |-> Len(params)]
                            ELSE [op |-> op, ok |-> FALSE, items |-> items,
                                  written |-> Len(done.table) - Len(rows)]
                 /\ clock' = IF done.table = rows THEN clock ELSE now

\* MemoryStore.add_batch
add_batch(items, embOk, now) == AddBatchCall("add_batch", items, embOk, now)

\* MemoryStore.import_json
import_json(data, embOk, now) ==
    LET items == [i \in 1..Len(data) |->
                    [content |-> data[i].content,
                     tags    |-> IF data[i].tags.kind = "none" THEN Some(<<>>)
                                 ELSE data[i].tags]]
    IN  AddBatchCall("import_json", items, embOk, now)

\* delete returning before self.conn.commit()
deleteWithoutCommit(memory_id) ==
    LET table == DeleteRow(rows, memory_id)
    IN  /\ rows' = table
        /\ last' = [op |-> "delete", id |-> memory_id,
                    ret |-> Len(rows) - Len(table) > 0]
        /\ UNCHANGED <<committed, seq, clock, assigned>>

\* MemoryStore.delete
delete(memory_id) ==
    LET table == DeleteRow(rows, memory_id)
    IN  /\ rows' = table
        /\ committed' = table
        /\ last' = [op |-> "delete", id |-> memory_id,
                    ret |-> Len(rows) - Len(table) > 0]
        /\ UNCHANGED <<seq, clock, assigned>>

\* MemoryStore.search
Search(query, limit, tags, min_score, embOk) ==
    /\ \/ /\ ~embOk
          /\ last' = [op |-> "search", ok |-> FALSE, query |-> query]
       \/ /\ embOk
          /\ last' = [op |-> "search", ok |-> TRUE, query |-> query,
                      limit |-> limit, tags |-> tags, min_score |-> min_score,
                      ret |-> search(query, limit, tags, min_score)]
    /\ UNCHANGED <<rows, committed, seq, clock, assigned>>

\* a list that takes the memories it returns out of the table
ListConsuming(limit, tags) ==
    /\ last' = [op |-> "list", limit |-> limit, tags |-> tags,
                ret |-> list(limit, tags)]
    /\ rows' = SelectSeq(rows, LAMBDA r : r.id \notin
                            {list(limit, tags)[i].id : i \in DOMAIN list(limit, tags)})
    /\ UNCHANGED <<committed, seq, clock, assigned>>

\* MemoryStore.list
List(limit, tags) ==
    /\ last' = [op |-> "list", limit |-> limit, tags |-> tags,
                ret |-> list(limit, tags)]
    /\ UNCHANGED <<rows, committed, seq, clock, assigned>>

\* MemoryStore.count
Count ==
    /\ last' = [op |-> "count", ret |-> count]
    /\ UNCHANGED <<rows, committed, seq, clock, assigned>>

\* MemoryStore.export_json
Export ==
    /\ last' = [op |-> "export_json", ret |-> export_json]
    /\ UNCHANGED <<rows, committed, seq, clock, assigned>>

\* get(id)
Get(memory_id) ==
    /\ last' = [op |-> "get", id |-> memory_id, ret |-> get(memory_id)]
    /\ UNCHANGED <<rows, committed, seq, clock, assigned>>

Next ==
    \/ \E c \in AddCalls, now \in Nows : add(c.content, c.tags, c.embOk, now)
    \/ \E c \in BatchCalls, now \in Nows : add_batch(c.items, c.embOk, now)
    \/ \E c \in ImportCalls, now \in Nows : import_json(c.data, c.embOk, now)
    \/ \E memory_id \in 1..MaxId : delete(memory_id)
    \/ \E c \in SearchCalls, limit \in Limits :
            Search(c.query, limit, c.tags, c.min_score, c.embOk)
    \/ \E limit \in Limits, tags \in TagFilters : List(limit, tags)
    \/ Count
    \/ Export
    \/ \E memory_id \in 1..MaxId : Get(memory_id)

Spec == Init /\ [][Next]_vars

(***************************************************************************)
(* Properties.                                                             *)
(***************************************************************************)
RetIds(ret) == {ret[i].id : i \in DOMAIN ret}

\* the tag list an Optional[List[str]] argument stands for
ListOf(t) == IF t.kind = "some" THEN t.v ELSE <<>>

\* C1: after add(c, t) with non-empty c returns a Memory m, get(m.id) has
\* content c and tags t, in order; and what get returns for an id keeps its
\* content and tags over every step that is not the delete of that id.
C1_AddThenGet ==
    /\ [](last.op = "add" /\ last.ok /\ last.content /= ""
            => /\ get(last.ret.id) /= Absent
               /\ get(last.ret.id).content = last.content
               /\ get(last.ret.id).tags = ListOf(last.tags)
               /\ last.ret.content = last.content
               /\ last.ret.tags = ListOf(last.tags))
    /\ [][\A id \in Ids(rows) :
            ~(last'.op = "delete" /\ last'.id = id)
                => /\ get(id)'.content = get(id).content
                   /\ get(id)'.tags = get(id).tags]_vars

\* a second add has returned the memory tagged [a, b], in that order
C1_Witness ==
    /\ last.op = "add" /\ last.ok
    /\ last.content = "a" /\ last.tags = Some(<<"a", "b">>)
    /\ Len(rows) = 2
    /\ get(last.ret.id).tags = <<"a", "b">>

\* C2: delete(id) of an existing id returns true, and then get(id) is absent
\* and no search, list or export returns the memory; delete(id) of an id
\* that does not exist returns false and leaves count() and every row as
\* they were.
C2_Delete ==
    /\ [](last.op = "delete" /\ last.ret
            => /\ get(last.id) = Absent
               /\ \A c \in SearchCalls, limit \in Limits :
                    last.id \notin RetIds(search(c.query, limit, c.tags, c.min_score))
               /\ \A limit \in Limits, tags \in TagFilters :
                    last.id \notin RetIds(list(limit, tags))
               /\ last.id \notin RetIds(export_json))
    /\ [][last'.op = "delete"
            => /\ last'.ret <=> last'.id \in Ids(rows)
               /\ ~last'.ret => rows' = rows /\ count' = count
               /\ \A id \in Ids(rows) \ {last'.id} : get(id)' = get(id)]_vars

\* an existing memory was deleted while another one stays
C2_Witness ==
    /\ last.op = "delete" /\ last.ret
    /\ Len(rows) = 1
    /\ last.id \notin Ids(rows)

\* C3: every id an INSERT assigns is positive and greater than every id
\* assigned before, so ids are unique and an id freed by delete is not
\* assigned again.
C3_IdsIncrease ==
    /\ [](\A i, j \in DOMAIN rows : i < j => rows[i].id < rows[j].id)
    /\ [][\A r \in Range(rows') :
            r.id \notin Ids(rows)
                => /\ r.id > 0
                   /\ r.id \notin assigned
                   /\ \A i \in assigned : r.id > i]_vars

\* every row was deleted, and the next add got an id above the freed one
C3_Witness ==
    /\ last.op = "add" /\ last.ok
    /\ Len(rows) = 1
    /\ rows[1].id = 2
    /\ assigned = {1, 2}

\* the stored memories a search call ranks: those passing its tag filter
\* whose similarity to the query is at least min_score
Passing(query, tags, min_score) ==
    {r \in Range(rows) :
        /\ ~Truthy(tags) \/ Range(tags.v) \cap Range(json_loads(r.tags)) /= {}
        /\ FGe(ScoreTable[Embed(query)][r.embedding], min_score)}

\* C4: every memory search returns has score >= min_score and a score in
\* [-1, 1].
C4_ScoreRange ==
    (last.op = "search" /\ last.ok)
        => \A i \in DOMAIN last.ret :
            /\ FGe(last.ret[i].score, last.min_score)
            /\ FGe(last.ret[i].score, FromInt(-1))
            /\ FGe(FromInt(1), last.ret[i].score)

\* the part of C4 about min_score alone: no returned score is below it
C4_MinScoreOnly ==
    (last.op = "search" /\ last.ok)
        => \A i \in DOMAIN last.ret : FGe(last.ret[i].score, last.min_score)

\* C5: the result of search is sorted by descending score, and of two
\* returned memories of equal score the more recently created comes first.
C5_SortedTiesRecentFirst ==
    (last.op = "search" /\ last.ok)
        => \A i, j \in DOMAIN last.ret :
            i < j => /\ ~FLt(last.ret[i].score, last.ret[j].score)
                     /\ FEq(last.ret[i].score, last.ret[j].score)
                            => last.ret[i].created_at >= last.ret[j].created_at

\* the part of C5 about scores alone: the result is sorted by descending score
C5_SortedByScore ==
    (last.op = "search" /\ last.ok)
        => \A i, j \in DOMAIN last.ret :
            i < j => ~FLt(last.ret[i].score, last.ret[j].score)

\* C6: search returns exactly min(limit, k) memories, k being the number of
\* stored memories that pass the tag filter with score >= min_score; they are
\* distinct passing memories, and no passing memory left out has a score
\* strictly greater than a returned one.
C6_TopK ==
    (last.op = "search" /\ last.ok)
        => LET passing == Passing(last.query, last.tags, last.min_score)
               score(r) == ScoreTable[Embed(last.query)][r.embedding]
           IN  /\ Len(last.ret) = Min(last.limit, Cardinality(passing))
               /\ Cardinality(RetIds(last.ret)) = Len(last.ret)
               /\ RetIds(last.ret) \subseteq {r.id : r \in passing}
               /\ \A i \in DOMAIN last.ret :
                    \E r \in passing : /\ r.id = last.ret[i].id
                                       /\ last.ret[i].score = score(r)
               /\ \A r \in passing :
                    r.id \notin RetIds(last.ret)
                        => \A i \in DOMAIN last.ret :
                            ~FLt(last.ret[i].score, score(r))

\* search with limit 1 returned the later, better of two passing memories
C6_Witness ==
    /\ last.op = "search" /\ last.ok
    /\ last.limit = 1
    /\ Cardinality(Passing(last.query, last.tags, last.min_score)) = 2
    /\ Len(last.ret) = 1
    /\ last.ret[1].id = 2

\* C7: under a non-empty tag filter F, search and list return only memories
\* with at least one tag in F, and leave out a memory with a tag in F only
\* for its score or the limit; [a, b] matches F = [b, z] and not F = [z],
\* and a memory without tags matches no non-empty F.
C7_AnyMatch ==
    /\ (last.op = "search" /\ last.ok /\ Truthy(last.tags))
        => /\ \A i \in DOMAIN last.ret :
                Range(last.ret[i].tags) \cap Range(last.tags.v) /= {}
           /\ Len(last.ret) < last.limit
                => \A r \in Range(rows) :
                    (/\ Range(json_loads(r.tags)) \cap Range(last.tags.v) /= {}
                     /\ FGe(ScoreTable[Embed(last.query)][r.embedding],
                            last.min_score))
                        => r.id \in RetIds(last.ret)
    /\ (last.op = "list" /\ Truthy(last.tags))
        => /\ \A i \in DOMAIN last.ret :
                Range(last.ret[i].tags) \cap Range(last.tags.v) /= {}
           /\ Len(last.ret) < last.limit
                => \A r \in Range(rows) :
                    Range(json_loads(r.tags)) \cap Range(last.tags.v) /= {}
                        => r.id \in RetIds(last.ret)
    /\ TagMatch(Some(<<"b", "z">>), <<"a", "b">>)
    /\ ~TagMatch(Some(<<"z">>), <<"a", "b">>)
    /\ ~TagMatch(Some(<<"z">>), <<>>)

\* search under F = [b, z] returned the memory tagged [a, b] and left out an
\* untagged one
C7_Witness ==
    /\ last.op = "search" /\ last.ok
    /\ last.tags = Some(<<"b", "z">>)
    /\ Len(rows) = 2
    /\ \E r \in Range(rows) : json_loads(r.tags) = <<>>
    /\ Len(last.ret) = 1
    /\ last.ret[1].tags = <<"a", "b">>

\* the stored memories matching a tag filter
Matching(tags) ==
    {r \in Range(rows) :
        ~Truthy(tags) \/ Range(tags.v) \cap Range(json_loads(r.tags)) /= {}}

\* C8: list returns exactly min(limit, m) memories, m being the number of
\* stored memories matching the filter; they are the most recently created
\* matching ones, most recent first, each with score 0.
C8_ListCount ==
    last.op = "list"
        => LET matching == Matching(last.tags)
           IN  /\ Len(last.ret) = Min(last.limit, Cardinality(matching))
               /\ RetIds(last.ret) \subseteq {r.id : r \in matching}
               /\ \A i, j \in DOMAIN last.ret :
                    i < j => last.ret[i].created_at >= last.ret[j].created_at
               /\ \A r \in matching :
                    r.id \notin RetIds(last.ret)
                        => \A i \in DOMAIN last.ret :
                            last.ret[i].created_at >= r.created_at
               /\ \A i \in DOMAIN last.ret : last.ret[i].score = FZero

\* C8 for limits of at least 1
C8_ListCountPositive ==
    (last.op = "list" /\ last.limit >= 1)
        => LET matching == Matching(last.tags)
           IN  /\ Len(last.ret) = Min(last.limit, Cardinality(matching))
               /\ RetIds(last.ret) \subseteq {r.id : r \in matching}
               /\ \A i, j \in DOMAIN last.ret :
                    i < j => last.ret[i].created_at >= last.ret[j].created_at
               /\ \A r \in matching :
                    r.id \notin RetIds(last.ret)
                        => \A i \in DOMAIN last.ret :
                            last.ret[i].created_at >= r.created_at
               /\ \A i \in DOMAIN last.ret : last.ret[i].score = FZero

\* C9: a successful add_batch of N items returns N, raises count() by N,
\* leaves the earlier rows as they were, and stores item i as the i-th new
\* row, with its content and tags and ids growing with i; N = 0 changes
\* nothing.
C9_AddBatch ==
    [][(last'.op = "add_batch" /\ last'.ok)
        => LET items == last'.items
               N     == Len(items)
               old   == Len(rows)
           IN  /\ last'.ret = N
               /\ count' = count + N
               /\ SubSeq(rows', 1, old) = rows
               /\ \A i \in 1..N :
                    \E id \in 1..MaxId :
                        /\ id = rows'[old + i].id
                        /\ id \notin Ids(rows)
                        /\ get(id)'.content = items[i].content
                        /\ get(id)'.tags = ListOf(items[i].tags)
               /\ \A i, j \in 1..N :
                    i < j => rows'[old + i].id < rows'[old + j].id
               /\ N = 0 => rows' = rows /\ committed' = rows]_vars

\* a batch of two different items was stored in a store that had a row
C9_Witness ==
    /\ last.op = "add_batch" /\ last.ok
    /\ last.ret = 2
    /\ last.items[1] /= last.items[2]
    /\ Len(rows) = 2

\* C10: an add_batch that fails leaves none of its rows in the store: the
\* rows every later count, list, search and export read, and the rows the
\* next commit makes durable, are those from before the call.
C10_BatchAllOrNothing ==
    [][(last'.op = "add_batch" /\ ~last'.ok)
        => /\ rows' = rows
           /\ count' = count
           /\ export_json' = export_json]_vars

\* the failures of add_batch before its first INSERT leave the store as it was
C10_FailureBeforeWrite ==
    [][(last'.op = "add_batch" /\ ~last'.ok /\ last'.written = 0)
        => rows' = rows /\ committed' = committed]_vars

(***************************************************************************)
(* update(id, content?, tags?).  store.py defines no update (cli.py edit   *)
(* calls store.update), so the operation is written from its description:  *)
(* it patches the supplied fields of the row of that id, computes a new    *)
(* embedding when content is supplied and only then, commits, and returns  *)
(* false for an id that has no row.  A content or tags of None is a field  *)
(* not supplied.                                                           *)
(***************************************************************************)
\* the UPDATE that writes a new content beside the embedding of the old one
UpdateRowStaleEmbedding(table, memory_id, content, tags) ==
    [i \in 1..Len(table) |->
        IF table[i].id /= memory_id THEN table[i]
        ELSE [table[i] EXCEPT
                !.content = IF content /= NullContent THEN content ELSE @,
                !.tags = IF tags.kind = "some" THEN json_dumps(tags.v) ELSE @]]

\* UPDATE memories SET <the supplied fields> WHERE id = ?
UpdateRow(table, memory_id, content, tags) ==
    [i \in 1..Len(table) |->
        IF table[i].id /= memory_id THEN table[i]
        ELSE [table[i] EXCEPT
                !.content = IF content /= NullContent THEN content ELSE @,
                !.embedding = IF content /= NullContent
                              THEN tobytes(Embed(content)) ELSE @,
                !.tags = IF tags.kind = "some" THEN json_dumps(tags.v) ELSE @]]

\* (content, tags) arguments of update
UpdateCalls ==
    { [content |-> "b", tags |-> None],
      [content |-> NullContent, tags |-> Some(<<"z">>)],
      [content |-> "b", tags |-> Some(<<"z">>)] }

update(memory_id, content, tags) ==
    LET exists == memory_id \in Ids(rows)
        table  == UpdateRow(rows, memory_id, content, tags)
    IN  /\ rows' = IF exists THEN table ELSE rows
        /\ committed' = IF exists THEN table ELSE committed
        /\ last' = [op |-> "update", id |-> memory_id, content |-> content,
                    tags |-> tags, ret |-> exists,
                    embedded |-> exists /\ content /= NullContent]
        /\ UNCHANGED <<seq, clock, assigned>>

\* add, delete and the reads by id and count, with update beside them
NextWithUpdate ==
    \/ \E c \in AddCalls, now \in Nows : add(c.content, c.tags, c.embOk, now)
    \/ \E memory_id \in 1..MaxId : delete(memory_id)
    \/ \E c \in UpdateCalls, memory_id \in 1..MaxId :
            update(memory_id, c.content, c.tags)
    \/ \E memory_id \in 1..MaxId : Get(memory_id)
    \/ Count

SpecWithUpdate == Init /\ [][NextWithUpdate]_vars

\* C11: update(id, content?, tags?) on an existing id returns true and
\* changes the supplied fields of that row under the same id, count() and
\* every other row staying as they were; the embedding is recomputed when
\* content is supplied and only then; on an id without a row it returns
\* false and leaves the store unchanged.
C11_Update ==
    [][last'.op = "update"
        => /\ last'.ret <=> last'.id \in Ids(rows)
           /\ ~last'.ret => UNCHANGED <<rows, committed, seq>>
           /\ count' = count
           /\ seq' = seq
           /\ Len(rows') = Len(rows)
           /\ \A i \in DOMAIN rows :
                /\ rows'[i].id = rows[i].id
                /\ rows'[i].created_at = rows[i].created_at
                /\ rows[i].id /= last'.id => rows'[i] = rows[i]
                /\ rows[i].id = last'.id =>
                    /\ last'.embedded <=> last'.content /= NullContent
                    /\ IF last'.content /= NullContent
                       THEN /\ rows'[i].content = last'.content
                            /\ rows'[i].embedding = tobytes(Embed(last'.content))
                       ELSE /\ rows'[i].content = rows[i].content
                            /\ rows'[i].embedding = rows[i].embedding
                    /\ IF last'.tags.kind = "some"
                       THEN json_loads(rows'[i].tags) = last'.tags.v
                       ELSE rows'[i].tags = rows[i].tags]_vars

\* a content-only update has rewritten one of two rows, whose embedding is
\* now that of the new content
C11_Witness ==
    /\ last.op = "update" /\ last.ret
    /\ last.content = "b" /\ last.tags = None
    /\ Len(rows) = 2
    /\ \E r \in Range(rows) :
        /\ r.id = last.id
        /\ r.content = "b"
        /\ json_loads(r.tags) = <<"a", "b">>
        /\ r.embedding = tobytes(Embed("b"))

\* C12: when add, add_batch, import_json or delete returns normally, the
\* connection holds no uncommitted write (the committed table is the table
\* the connection sees), and the reads that follow leave it so.
C12_CommitBeforeReturn ==
    [][/\ ((last'.op \in {"add", "add_batch", "import_json"} /\ last'.ok)
            \/ last'.op = "delete")
                => committed' = rows'
       /\ last'.op \in {"search", "list", "count", "export_json", "get"}
                => UNCHANGED <<rows, committed>>]_vars

\* an import of two records has returned 2 and both rows are committed
C12_Witness ==
    /\ last.op = "import_json" /\ last.ok
    /\ last.ret = 2
    /\ Len(committed) = 2
    /\ committed = rows

\* the table of a new store after import_json(export_json()) of this one,
\* run at second now: import_json reads "content" and "tags" of each record
\* and add_batch inserts them, created_at being the column's default
Reimported(now) ==
    LET data   == export_json
        params == [i \in 1..Len(data) |->
                    [content   |-> data[i].content,
                     tags      |-> json_dumps(TagsOrEmpty(Some(data[i].tags)).v),
                     embedding |-> tobytes(Embed(data[i].content))]]
    IN  executemany(<<>>, 0, now, params, 1).table

\* the multiset of (content, tags, created_at) of a table
TripleBag(table) ==
    LET triple(r) == <<r.content, json_loads(r.tags), r.created_at>>
    IN  [t \in {triple(table[i]) : i \in DOMAIN table} |->
            Cardinality({i \in DOMAIN table : triple(table[i]) = t})]

\* the multiset of (content, tags) of a table
PairBag(table) ==
    LET pair(r) == <<r.content, json_loads(r.tags)>>
    IN  [t \in {pair(table[i]) : i \in DOMAIN table} |->
            Cardinality({i \in DOMAIN table : pair(table[i]) = t})]

\* C13: importing export() of a store into an empty store, in the second of
\* the last insert or in the next one, gives a store with the same multiset
\* of (content, tags, created_at).
C13_RoundTrip ==
    \E now \in clock..(clock + 1) : TripleBag(Reimported(now)) = TripleBag(rows)

\* the round trip keeps the multiset of (content, tags)
C13_RoundTripContentTags ==
    \A now \in clock..(clock + 1) : PairBag(Reimported(now)) = PairBag(rows)

\* C14: add with empty content fails and leaves the rows, count() and the
\* next id as they were.
C14_EmptyContentRejected ==
    [][(last'.op = "add" /\ last'.content = "")
        => /\ ~last'.ok
           /\ rows' = rows
           /\ count' = count
           /\ seq' = seq]_vars

\* whether a float32 vector has norm zero
ZeroNorm(v) == Norm(v) = FZero

\* C15: when the query embedding or a stored embedding has norm zero, search
\* gives that memory the score 0.0, and returns it whenever it passes the tag
\* filter, min_score <= 0.0 and the result is shorter than the limit.
C15_ZeroNormScoresZero ==
    (last.op = "search" /\ last.ok)
        => \A r \in Range(rows) :
            (ZeroNorm(AsFloat32(Embed(last.query)))
                \/ ZeroNorm(frombuffer(r.embedding)))
            => /\ \A i \in DOMAIN last.ret :
                    last.ret[i].id = r.id => last.ret[i].score = FZero
               /\ (/\ ~Truthy(last.tags)
                      \/ Range(last.tags.v) \cap Range(json_loads(r.tags)) /= {}
                   /\ FGe(FZero, last.min_score)
                   /\ Len(last.ret) < last.limit)
                    => r.id \in RetIds(last.ret)

\* what search does with a zero-norm vector: the call returns, and no
\* memory whose score involves one is in the result
C15_ZeroNormLeftOut ==
    (last.op = "search" /\ last.ok)
        => \A r \in Range(rows) :
            (ZeroNorm(AsFloat32(Embed(last.query)))
                \/ ZeroNorm(frombuffer(r.embedding)))
            => r.id \notin RetIds(last.ret)

\* C16: search (also one whose embedding call fails), list, count and
\* export_json leave the stored rows, count(), the next id to be assigned
\* and the committed table as they were.
C16_ReadsChangeNothing ==
    [][last'.op \in {"search", "list", "count", "export_json"}
        => /\ rows' = rows
           /\ count' = count
           /\ NextRowid(rows, seq)' = NextRowid(rows, seq)
           /\ seq' = seq
           /\ committed' = committed]_vars

\* a search whose embedding call failed, on a connection that holds a row
\* of a failed batch
C16_Witness ==
    /\ last.op = "search" /\ ~last.ok
    /\ Len(rows) = 1
    /\ committed = <<>>

====
